---- MODULE Spec2Model ----
(***************************************************************************)
(* Model of devpod-provider-aws: the options loader (pkg/options), the     *)
(* network resource resolver (pkg/aws/vpc.go), the spot launcher and spot  *)
(* deletion (pkg/aws/spot.go) and the command executor (cmd/command.go).   *)
(*                                                                         *)
(* The cloud resource store is the system of record: vpcs, sgs, subnets,   *)
(* rtbs, requests and instances are the resources EC2 holds, each kept in  *)
(* the order the Describe* calls list them.  Every operation of the        *)
(* program is one action; the EC2 calls it issues are recorded, in order,  *)
(* in last.calls.  The environment decides which call of an invocation     *)
(* fails (fail = its 1-based position, 0 = none).                          *)
(***************************************************************************)
EXTENDS Integers, Sequences, FiniteSets, TLC

VARIABLES
    vpcs,       \* EC2: the VPCs, as DescribeVpcs lists them
    sgs,        \* EC2: the security groups
    subnets,    \* EC2: the subnets
    rtbs,       \* EC2: the route tables
    requests,   \* EC2: the spot instance requests
    instances,  \* EC2: the instances
    env,        \* the environment variables every process of this run is started with
    provider,   \* AwsProvider.Config of the running process (Nil before NewProvider)
    proc,       \* where the running process stands: idle, or polling a spot request
    last        \* the outcome of the last operation: what it returned and the calls it made

vars == <<vpcs, sgs, subnets, rtbs, requests, instances, env, provider, proc, last>>

----------------------------------------------------------------------------
(* Bounds of the model *)

\* spot requests the account may hold
MaxRequests == 2
\* status polls the environment lets one launch make before it fulfils the request
MaxPolls == 2

----------------------------------------------------------------------------
(* Values *)

Nil == [nil |-> TRUE]
NoErr == ""

Tag(k, v) == [Key |-> k, Value |-> v]

\* strings.Contains(s, sub)
Contains(s, sub) ==
    \E i \in 1..(Len(s) - Len(sub) + 1) : SubSeq(s, i, i + Len(sub) - 1) = sub

\* the sub-sequences of a sequence, order kept
RECURSIVE SubSeqsOf(_)
SubSeqsOf(q) ==
    IF q = <<>> THEN {<<>>}
    ELSE LET rest == SubSeqsOf(Tail(q))
         IN  rest \cup {<<Head(q)>> \o r : r \in rest}

HasTag(r, k, v) == \E i \in 1..Len(r.Tags) : r.Tags[i].Key = k /\ r.Tags[i].Value = v

----------------------------------------------------------------------------
(* pkg/options: the configuration loaded from the environment *)

AWS_AMI == "AWS_AMI"
AWS_DISK_SIZE == "AWS_DISK_SIZE"
AWS_INSTANCE_TYPE == "AWS_INSTANCE_TYPE"
AWS_REGION == "AWS_REGION"
AWS_SECURITY_GROUP_ID == "AWS_SECURITY_GROUP_ID"
AWS_SUBNET_ID == "AWS_SUBNET_ID"
AWS_VPC_ID == "AWS_VPC_ID"
AWS_INSTANCE_TAGS == "AWS_INSTANCE_TAGS"
AWS_INSTANCE_PROFILE_ARN == "AWS_INSTANCE_PROFILE_ARN"
AWS_USE_SPOT_INSTANCES == "AWS_USE_SPOT_INSTANCES"
AWS_CREATE_VPC == "AWS_CREATE_VPC"
MACHINE_ID == "MACHINE_ID"
MACHINE_FOLDER == "MACHINE_FOLDER"
COMMAND == "COMMAND"

EnvNames ==
    {AWS_AMI, AWS_DISK_SIZE, AWS_INSTANCE_TYPE, AWS_REGION, AWS_SECURITY_GROUP_ID,
     AWS_SUBNET_ID, AWS_VPC_ID, AWS_INSTANCE_TAGS, AWS_INSTANCE_PROFILE_ARN,
     AWS_USE_SPOT_INSTANCES, AWS_CREATE_VPC, MACHINE_ID, MACHINE_FOLDER, COMMAND}

\* os.Getenv: an unset variable reads as ""
Getenv(environ, name) == environ[name]

\* The error of fromEnvOrError: its text names the option twice.
ErrMissingOption(name) ==
    "couldn't find option " \o name \o " in environment, please make sure "
        \o name \o " is defined"

\* the lookup without its test: an unset variable is returned as ""
fromEnvUnchecked(environ, name) == [val |-> Getenv(environ, name), err |-> NoErr]

fromEnvOrError(environ, name) ==
    LET val == Getenv(environ, name)
    IN  IF val = "" THEN [val |-> "", err |-> ErrMissingOption(name)]
        ELSE [val |-> val, err |-> NoErr]

Digits == <<"0", "1", "2", "3", "4", "5", "6", "7", "8", "9">>
IsDigit(c) == \E d \in 1..10 : Digits[d] = c
DigitVal(c) == (CHOOSE d \in 1..10 : Digits[d] = c) - 1

RECURSIVE DecimalValue(_)
DecimalValue(s) ==
    IF Len(s) = 0 THEN 0
    ELSE 10 * DecimalValue(SubSeq(s, 1, Len(s) - 1)) + DigitVal(SubSeq(s, Len(s), Len(s)))

\* strconv.Atoi: an optional sign, then one or more decimal digits
Atoi(s) ==
    LET signed == Len(s) > 0 /\ SubSeq(s, 1, 1) \in {"+", "-"}
        body == IF signed THEN SubSeq(s, 2, Len(s)) ELSE s
        okay == Len(body) > 0 /\ \A i \in 1..Len(body) : IsDigit(SubSeq(body, i, i))
    IN  IF ~okay
        THEN [val |-> 0, err |-> "strconv.Atoi: parsing \"" \o s \o "\": invalid syntax"]
        ELSE [val |-> IF signed /\ SubSeq(s, 1, 1) = "-"
                      THEN 0 - DecimalValue(body) ELSE DecimalValue(body),
              err |-> NoErr]

\* strconv.ParseBool, its error dropped by the caller (the value is then false)
ParseBool(s) == s \in {"1", "t", "T", "TRUE", "true", "True"}

\* FromEnv(init): the options, or nil and the first error
FromEnv(init, environ) ==
    LET machineType == fromEnvOrError(environ, AWS_INSTANCE_TYPE)
        diskSizeGB == fromEnvOrError(environ, AWS_DISK_SIZE)
        size == Atoi(diskSizeGB.val)
        base == [DiskImage |-> Getenv(environ, AWS_AMI),
                 DiskSizeGB |-> size.val,
                 MachineFolder |-> "",
                 MachineID |-> "",
                 MachineType |-> machineType.val,
                 VpcID |-> Getenv(environ, AWS_VPC_ID),
                 SubnetID |-> Getenv(environ, AWS_SUBNET_ID),
                 SecurityGroupID |-> Getenv(environ, AWS_SECURITY_GROUP_ID),
                 InstanceProfileArn |-> Getenv(environ, AWS_INSTANCE_PROFILE_ARN),
                 InstanceTags |-> Getenv(environ, AWS_INSTANCE_TAGS),
                 Zone |-> Getenv(environ, AWS_REGION),
                 UseSpot |-> ParseBool(Getenv(environ, AWS_USE_SPOT_INSTANCES)),
                 CreateVpc |-> ParseBool(Getenv(environ, AWS_CREATE_VPC))]
        machineID == fromEnvOrError(environ, MACHINE_ID)
        machineFolder == fromEnvOrError(environ, MACHINE_FOLDER)
    IN  IF machineType.err # NoErr THEN [opts |-> Nil, err |-> machineType.err]
        ELSE IF diskSizeGB.err # NoErr THEN [opts |-> Nil, err |-> diskSizeGB.err]
        ELSE IF size.err # NoErr THEN [opts |-> Nil, err |-> size.err]
        ELSE IF init THEN [opts |-> base, err |-> NoErr]
        ELSE IF machineID.err # NoErr THEN [opts |-> Nil, err |-> machineID.err]
        ELSE IF machineFolder.err # NoErr THEN [opts |-> Nil, err |-> machineFolder.err]
        ELSE [opts |-> [base EXCEPT !.MachineID = "devpod-" \o machineID.val,
                                    !.MachineFolder = machineFolder.val],
              err |-> NoErr]

----------------------------------------------------------------------------
(* The EC2 client: every call is logged; a call fails when the environment *)
(* says so (s.fail) or, for a create, when the account's limit is reached. *)

ApiError(api) == "api error: " \o api
LimitExceeded(api) == "limit exceeded: " \o api

\* the store as an invocation sees it, with an empty call log
Session(fail) ==
    [vpcs |-> vpcs, sgs |-> sgs, subnets |-> subnets, rtbs |-> rtbs,
     requests |-> requests, instances |-> instances,
     calls |-> <<>>, fail |-> fail, keypair |-> TRUE]

Failing(s) == Len(s.calls) + 1 = s.fail

Logged(s, api, arg, ok) ==
    [s EXCEPT !.calls = Append(@, [api |-> api, arg |-> arg, ok |-> ok, err |-> NoErr])]

\* a failed call: the SDK returns a nil output and the error
Failed(s, api, arg, err) ==
    [s |-> [s EXCEPT !.calls = Append(@, [api |-> api, arg |-> arg, ok |-> FALSE, err |-> err])],
     out |-> <<>>, err |-> err, isNil |-> TRUE]

\* the resources of a list that this program created (their IDs are NewId's)
IsNewId(id) == Len(id) > 4 /\ SubSeq(id, Len(id) - 4, Len(id) - 1) = "-new"
NewId(prefix, n) == prefix \o "-new" \o ToString(n)
CreatedVpcs(s) == Cardinality({i \in 1..Len(s.vpcs) : IsNewId(s.vpcs[i].VpcId)})
CreatedGroups(s) == Cardinality({i \in 1..Len(s.sgs) : IsNewId(s.sgs[i].GroupId)})
CreatedSubnets(s) == Cardinality({i \in 1..Len(s.subnets) : IsNewId(s.subnets[i].SubnetId)})

\* a Describe* filter: a name and the set of values it accepts
Filter(name, values) == [Name |-> name, Values |-> values]

BoolText(b) == IF b THEN "true" ELSE "false"

DescribeVpcs(s) ==
    IF Failing(s) THEN Failed(s, "DescribeVpcs", "", ApiError("DescribeVpcs"))
    ELSE [s |-> Logged(s, "DescribeVpcs", "", TRUE), out |-> s.vpcs, err |-> NoErr, isNil |-> FALSE]

CreateVpc(s, cidr, tags) ==
    IF Failing(s) THEN Failed(s, "CreateVpc", cidr, ApiError("CreateVpc"))
    ELSE LET vpc == [VpcId |-> NewId("vpc", CreatedVpcs(s) + 1), CidrBlock |-> cidr,
                     Tags |-> tags, IsDefault |-> FALSE]
         IN  [s |-> Logged([s EXCEPT !.vpcs = Append(@, vpc)], "CreateVpc", vpc.VpcId, TRUE),
              out |-> vpc, err |-> NoErr, isNil |-> FALSE]

GroupMatches(g, f) ==
    CASE f.Name = "tag:devpod" -> \E v \in f.Values : HasTag(g, "devpod", v)
      [] f.Name = "vpc-id" -> g.VpcId \in f.Values
      [] OTHER -> FALSE

DescribeSecurityGroups(s, filters) ==
    IF Failing(s)
    THEN Failed(s, "DescribeSecurityGroups", "", ApiError("DescribeSecurityGroups"))
    ELSE LET Match(g) == \A i \in 1..Len(filters) : GroupMatches(g, filters[i])
         IN  [s |-> Logged(s, "DescribeSecurityGroups", "", TRUE),
              out |-> SelectSeq(s.sgs, Match), err |-> NoErr, isNil |-> FALSE]

\* why EC2 rejects a security group: the VPC is unknown, or holds the name already
GroupRejection(s, name, vpc) ==
    IF ~\E i \in 1..Len(s.vpcs) : s.vpcs[i].VpcId = vpc
    THEN "InvalidVpcID.NotFound: " \o vpc
    ELSE IF \E i \in 1..Len(s.sgs) : s.sgs[i].VpcId = vpc /\ s.sgs[i].GroupName = name
    THEN "InvalidGroup.Duplicate: " \o name
    ELSE NoErr

CreateSecurityGroup(s, name, vpc, tags) ==
    IF Failing(s) THEN Failed(s, "CreateSecurityGroup", vpc, ApiError("CreateSecurityGroup"))
    ELSE IF GroupRejection(s, name, vpc) # NoErr
    THEN Failed(s, "CreateSecurityGroup", vpc, GroupRejection(s, name, vpc))
    ELSE LET g == [GroupId |-> NewId("sg", CreatedGroups(s) + 1), GroupName |-> name,
                   VpcId |-> vpc, Tags |-> tags, IpPermissions |-> <<>>]
         IN  [s |-> Logged([s EXCEPT !.sgs = Append(@, g)], "CreateSecurityGroup", g.GroupId, TRUE),
              out |-> g, err |-> NoErr, isNil |-> FALSE]

AuthorizeSecurityGroupIngress(s, groupID, perm) ==
    IF Failing(s) \/ ~\E i \in 1..Len(s.sgs) : s.sgs[i].GroupId = groupID
    THEN Failed(s, "AuthorizeSecurityGroupIngress", groupID,
                ApiError("AuthorizeSecurityGroupIngress"))
    ELSE LET i == CHOOSE j \in 1..Len(s.sgs) : s.sgs[j].GroupId = groupID
         IN  [s |-> Logged([s EXCEPT !.sgs[i].IpPermissions = Append(@, perm)],
                           "AuthorizeSecurityGroupIngress", groupID, TRUE),
              out |-> Nil, err |-> NoErr, isNil |-> FALSE]

SubnetMatches(sn, f) ==
    CASE f.Name = "tag:devpod" -> \E v \in f.Values : HasTag(sn, "devpod", v)
      [] f.Name = "tag:Name" -> \E v \in f.Values : HasTag(sn, "Name", v)
      [] f.Name = "vpc-id" -> sn.VpcId \in f.Values
      [] f.Name = "map-public-ip-on-launch" -> BoolText(sn.MapPublicIpOnLaunch) \in f.Values
      [] OTHER -> FALSE

DescribeSubnets(s, filters) ==
    IF Failing(s) THEN Failed(s, "DescribeSubnets", filters[1].Name, ApiError("DescribeSubnets"))
    ELSE LET Match(sn) == \A i \in 1..Len(filters) : SubnetMatches(sn, filters[i])
         IN  [s |-> Logged(s, "DescribeSubnets", filters[1].Name, TRUE),
              out |-> SelectSeq(s.subnets, Match), err |-> NoErr, isNil |-> FALSE]

\* the /16 network an address block lies in: its text up to the second dot
Dots(c) == {i \in 1..Len(c) : SubSeq(c, i, i) = "."}
NetworkOf(c) ==
    SubSeq(c, 1, CHOOSE i \in Dots(c) : Cardinality({j \in Dots(c) : j < i}) = 1)

\* why EC2 rejects a subnet: the VPC is unknown, the block lies outside the
\* block of the VPC, or a subnet of the VPC holds the block already
SubnetRejection(s, cidr, vpc) ==
    IF ~\E i \in 1..Len(s.vpcs) : s.vpcs[i].VpcId = vpc
    THEN "InvalidVpcID.NotFound: " \o vpc
    ELSE IF \E i \in 1..Len(s.vpcs) :
                s.vpcs[i].VpcId = vpc /\ NetworkOf(s.vpcs[i].CidrBlock) # NetworkOf(cidr)
    THEN "InvalidSubnet.Range: " \o cidr
    ELSE IF \E i \in 1..Len(s.subnets) :
                s.subnets[i].VpcId = vpc /\ s.subnets[i].CidrBlock = cidr
    THEN "InvalidSubnet.Conflict: " \o cidr
    ELSE NoErr

CreateSubnet(s, cidr, vpc, tags) ==
    IF Failing(s) THEN Failed(s, "CreateSubnet", vpc, ApiError("CreateSubnet"))
    ELSE IF SubnetRejection(s, cidr, vpc) # NoErr
    THEN Failed(s, "CreateSubnet", vpc, SubnetRejection(s, cidr, vpc))
    ELSE LET sn == [SubnetId |-> NewId("subnet", CreatedSubnets(s) + 1), VpcId |-> vpc,
                    CidrBlock |-> cidr, Tags |-> tags, MapPublicIpOnLaunch |-> FALSE,
                    AvailableIpAddressCount |-> 3]
         IN  [s |-> Logged([s EXCEPT !.subnets = Append(@, sn)], "CreateSubnet", sn.SubnetId, TRUE),
              out |-> sn, err |-> NoErr, isNil |-> FALSE]

ModifySubnetAttribute(s, subnetID, mapPublic) ==
    IF Failing(s) \/ ~\E i \in 1..Len(s.subnets) : s.subnets[i].SubnetId = subnetID
    THEN Failed(s, "ModifySubnetAttribute", subnetID, ApiError("ModifySubnetAttribute"))
    ELSE LET i == CHOOSE j \in 1..Len(s.subnets) : s.subnets[j].SubnetId = subnetID
         IN  [s |-> Logged([s EXCEPT !.subnets[i].MapPublicIpOnLaunch = mapPublic],
                           "ModifySubnetAttribute", subnetID, TRUE),
              out |-> Nil, err |-> NoErr, isNil |-> FALSE]

\* Nothing in the program reads a route table back: the store keeps which
\* tables exist, and the calls that associate and route them are logged.
CreateRouteTable(s, vpc, tags) ==
    IF Failing(s) THEN Failed(s, "CreateRouteTable", vpc, ApiError("CreateRouteTable"))
    ELSE LET rt == [RouteTableId |-> NewId("rtb", Len(s.rtbs) + 1), VpcId |-> vpc,
                    Tags |-> tags]
         IN  [s |-> Logged([s EXCEPT !.rtbs = Append(@, rt)], "CreateRouteTable",
                           rt.RouteTableId, TRUE),
              out |-> rt, err |-> NoErr, isNil |-> FALSE]

AssociateRouteTable(s, subnetID, routeTableID) ==
    IF Failing(s) \/ ~\E i \in 1..Len(s.rtbs) : s.rtbs[i].RouteTableId = routeTableID
    THEN Failed(s, "AssociateRouteTable", routeTableID, ApiError("AssociateRouteTable"))
    ELSE [s |-> Logged(s, "AssociateRouteTable", routeTableID, TRUE),
          out |-> Nil, err |-> NoErr, isNil |-> FALSE]

CreateRoute(s, destination, routeTableID) ==
    IF Failing(s) \/ ~\E i \in 1..Len(s.rtbs) : s.rtbs[i].RouteTableId = routeTableID
    THEN Failed(s, "CreateRoute", routeTableID, ApiError("CreateRoute"))
    ELSE [s |-> Logged(s, "CreateRoute", routeTableID, TRUE),
          out |-> Nil, err |-> NoErr, isNil |-> FALSE]

----------------------------------------------------------------------------
(* pkg/aws/vpc.go: the network resource resolver.  Each function maps the  *)
(* session s and the configuration to [s, val, err, crash]: the session    *)
(* after its calls, the ID and error it returns, and whether it panicked.  *)

Return(s, val, err) == [s |-> s, val |-> val, ids |-> <<>>, err |-> err, crash |-> FALSE]
Panic(s, what) ==
    [s |-> s, val |-> "", ids |-> <<>>, err |-> "panic: " \o what, crash |-> TRUE]

ErrNoVpcs == "there are no VPCs to associate with"
ErrNoSuitableVpc == "no suitable VPC found"
ErrNoDevpodSubnet == "no devpod subnet found"

\* the first index of q whose element satisfies the test (0 when none does)
FirstIndex(q, Test(_)) ==
    IF \E i \in 1..Len(q) : Test(q[i])
    THEN CHOOSE i \in 1..Len(q) : Test(q[i]) /\ \A j \in 1..(i - 1) : ~Test(q[j])
    ELSE 0

\* a call's result r, evaluated once, handed to what follows it
Bind(r, Then(_)) == CHOOSE y \in {Then(x) : x \in {r}} : TRUE

CreateDevpodVpc(s, cfg) ==
    Bind(CreateVpc(s, "10.0.0.0/16", <<Tag("Name", "devpod")>>), LAMBDA vpc :
        IF vpc.err # NoErr THEN Return(vpc.s, "", vpc.err)
        ELSE Return(vpc.s, vpc.out.VpcId, NoErr))

\* the Name tag of a VPC contains "devpod"
NamedDevpod(vpc) ==
    \E i \in 1..Len(vpc.Tags) :
        vpc.Tags[i].Key = "Name" /\ Contains(vpc.Tags[i].Value, "devpod")

IsDefaultVpc(vpc) == vpc.IsDefault

GetDevpodVPC(s, cfg) ==
    IF cfg.VpcID # "" THEN Return(s, cfg.VpcID, NoErr)
    ELSE Bind(DescribeVpcs(s), LAMBDA result :
        IF result.err # NoErr THEN Return(result.s, "", result.err)
        ELSE IF Len(result.out) = 0 THEN Return(result.s, "", ErrNoVpcs)
        ELSE IF FirstIndex(result.out, NamedDevpod) # 0
        THEN Return(result.s, result.out[FirstIndex(result.out, NamedDevpod)].VpcId, NoErr)
        ELSE IF cfg.CreateVpc THEN CreateDevpodVpc(result.s, cfg)
        ELSE IF FirstIndex(result.out, IsDefaultVpc) # 0
        THEN Return(result.s, result.out[FirstIndex(result.out, IsDefaultVpc)].VpcId, NoErr)
        ELSE Return(result.s, "", ErrNoSuitableVpc))

SshIngress ==
    [IpProtocol |-> "tcp", FromPort |-> 22, ToPort |-> 22, CidrIp |-> "0.0.0.0/0"]

CreateDevpodSecurityGroup(s, cfg) ==
    Bind(GetDevpodVPC(s, cfg), LAMBDA vpc :
        IF vpc.err # NoErr THEN Return(vpc.s, "", vpc.err)
        ELSE
    Bind(CreateSecurityGroup(vpc.s, "devpod", vpc.val, <<Tag("devpod", "devpod")>>),
         LAMBDA result :
        IF result.err # NoErr THEN Return(result.s, "", result.err)
        ELSE
    Bind(AuthorizeSecurityGroupIngress(result.s, result.out.GroupId, SshIngress),
         LAMBDA auth :
        IF auth.err # NoErr THEN Return(auth.s, "", auth.err)
        ELSE Return(auth.s, result.out.GroupId, NoErr))))

\* On a failed lookup the SDK returns a nil output with the error, and the
\* condition reads len(result.SecurityGroups) before it looks at err.
GetDevpodSecurityGroup(s, cfg) ==
    IF cfg.SecurityGroupID # "" THEN Return(s, cfg.SecurityGroupID, NoErr)
    ELSE
    Bind(DescribeSecurityGroups(s,
             <<Filter("tag:devpod", {"devpod"})>>
             \o (IF cfg.VpcID # "" THEN <<Filter("vpc-id", {cfg.VpcID})>> ELSE <<>>)),
         LAMBDA result :
        IF result.isNil THEN Panic(result.s, "nil pointer dereference")
        ELSE IF Len(result.out) = 0 \/ result.err # NoErr
        THEN CreateDevpodSecurityGroup(result.s, cfg)
        ELSE Return(result.s, result.out[1].GroupId, NoErr))

CreateDevpodSubnet(s, cfg) ==
    Bind(GetDevpodVPC(s, cfg), LAMBDA vpc :
        IF vpc.err # NoErr THEN Return(vpc.s, "", vpc.err)
        ELSE
    Bind(CreateSubnet(vpc.s, "10.0.0.0/24", vpc.val,
                      <<Tag("Name", "devpod"), Tag("devpod", cfg.MachineID)>>),
         LAMBDA subnet :
        IF subnet.err # NoErr THEN Return(subnet.s, "", subnet.err)
        ELSE
    Bind(ModifySubnetAttribute(subnet.s, subnet.out.SubnetId, TRUE), LAMBDA attr :
        IF attr.err # NoErr THEN Return(attr.s, "", attr.err)
        ELSE
    Bind(CreateRouteTable(attr.s, vpc.val, <<Tag("Name", "devpod")>>), LAMBDA routeTable :
        IF routeTable.err # NoErr THEN Return(routeTable.s, "", routeTable.err)
        ELSE
    Bind(AssociateRouteTable(routeTable.s, subnet.out.SubnetId, routeTable.out.RouteTableId),
         LAMBDA assoc :
        IF assoc.err # NoErr THEN Return(assoc.s, "", assoc.err)
        ELSE
    Bind(CreateRoute(assoc.s, subnet.out.CidrBlock, routeTable.out.RouteTableId),
         LAMBDA route :
        IF route.err # NoErr THEN Return(route.s, "", route.err)
        ELSE Return(route.s, subnet.out.SubnetId, NoErr)))))))

\* the loop of GetSubnetID: the first subnet with the strictly largest count above 0
RECURSIVE MaxIPSubnet(_, _, _)
MaxIPSubnet(list, maxIPCount, subnetID) ==
    IF list = <<>> THEN subnetID
    ELSE IF Head(list).AvailableIpAddressCount > maxIPCount
    THEN MaxIPSubnet(Tail(list), Head(list).AvailableIpAddressCount, Head(list).SubnetId)
    ELSE MaxIPSubnet(Tail(list), maxIPCount, subnetID)

\* GetSubnetID without its first test: the tag search runs even with an ID configured
GetSubnetIDSearching(s, cfg) ==
    Bind(DescribeSubnets(s, <<Filter("tag:devpod", {"devpod"})>>), LAMBDA tagged :
        IF tagged.err # NoErr THEN Return(tagged.s, "", tagged.err)
        ELSE IF Len(tagged.out) > 0 THEN Return(tagged.s, tagged.out[1].SubnetId, NoErr)
        ELSE Return(tagged.s, cfg.SubnetID, NoErr))

GetSubnetID(s, cfg) ==
    IF cfg.SubnetID # "" THEN Return(s, cfg.SubnetID, NoErr)
    ELSE
    Bind(DescribeSubnets(s, <<Filter("tag:devpod", {"devpod"})>>), LAMBDA tagged :
        IF tagged.err # NoErr THEN Return(tagged.s, "", tagged.err)
        ELSE IF Len(tagged.out) > 0 THEN Return(tagged.s, tagged.out[1].SubnetId, NoErr)
        ELSE
    Bind(DescribeSubnets(tagged.s, <<Filter("vpc-id", {cfg.VpcID}),
                                     Filter("map-public-ip-on-launch", {"true"})>>),
         LAMBDA result :
        IF result.err # NoErr THEN Return(result.s, "", result.err)
        ELSE Return(result.s, MaxIPSubnet(result.out, 0, ""), NoErr)))

GetDevpodSubnet(s, cfg) ==
    Bind(DescribeSubnets(s, <<Filter("tag:Name", {"devpod"})>>), LAMBDA found :
        IF found.err # NoErr THEN Return(found.s, "", found.err)
        ELSE IF Len(found.out) = 0 THEN Return(found.s, "", ErrNoDevpodSubnet)
        ELSE Return(found.s, found.out[1].SubnetId, NoErr))

\* The resolver as a whole (section 4.1 of the specification: "given a
\* configuration, return usable VPC, subnet, and security-group identifiers,
\* creating any that are missing"): the VPC, then the subnet (the explicit ID,
\* else the search by the fixed tag, else a created subnet), then the security
\* group.  It returns the three IDs.
ResolveNetwork(s, cfg) ==
    Bind(GetDevpodVPC(s, cfg), LAMBDA vpc :
        IF vpc.err # NoErr THEN vpc
        ELSE
    Bind(GetSubnetID(vpc.s, cfg), LAMBDA found :
    Bind(IF found.err = NoErr /\ found.val = ""
         THEN CreateDevpodSubnet(found.s, cfg) ELSE found, LAMBDA subnet :
        IF subnet.err # NoErr THEN subnet
        ELSE
    Bind(GetDevpodSecurityGroup(subnet.s, cfg), LAMBDA group :
        IF group.err # NoErr THEN group
        ELSE [group EXCEPT !.val = "", !.ids = <<vpc.val, subnet.val, group.val>>]))))

----------------------------------------------------------------------------
(* The EC2 client: spot requests and instances *)

RequestSpotInstances(s, launch, tags) ==
    IF Failing(s) THEN Failed(s, "RequestSpotInstances", "", ApiError("RequestSpotInstances"))
    ELSE IF Len(s.requests) >= MaxRequests
    THEN Failed(s, "RequestSpotInstances", "", LimitExceeded("RequestSpotInstances"))
    ELSE LET req == [SpotInstanceRequestId |-> NewId("sir", Len(s.requests) + 1),
                     Type |-> "persistent", Tags |-> tags, State |-> "open",
                     Status |-> "pending-evaluation", InstanceId |-> "",
                     LaunchSpecification |-> launch]
         IN  [s |-> Logged([s EXCEPT !.requests = Append(@, req)], "RequestSpotInstances",
                           req.SpotInstanceRequestId, TRUE),
              out |-> <<req>>, err |-> NoErr, isNil |-> FALSE]

\* what a status poll was answered: the first request's status code and instance ID
Answer(list) ==
    IF Len(list) = 0 THEN "none" ELSE list[1].Status \o "/" \o list[1].InstanceId

\* by request ID; a request just submitted may not be listed yet (visible)
DescribeSpotInstanceRequestsById(s, id, visible) ==
    IF Failing(s)
    THEN Failed(s, "DescribeSpotInstanceRequests", "", ApiError("DescribeSpotInstanceRequests"))
    ELSE LET Match(r) == visible /\ r.SpotInstanceRequestId = id
             out == SelectSeq(s.requests, Match)
         IN  [s |-> Logged(s, "DescribeSpotInstanceRequests", Answer(out), TRUE),
              out |-> out, err |-> NoErr, isNil |-> FALSE]

\* by the filter tag:devpod
DescribeSpotInstanceRequestsByTag(s, value) ==
    IF Failing(s)
    THEN Failed(s, "DescribeSpotInstanceRequests", "", ApiError("DescribeSpotInstanceRequests"))
    ELSE LET Match(r) == HasTag(r, "devpod", value)
             out == SelectSeq(s.requests, Match)
         IN  [s |-> Logged(s, "DescribeSpotInstanceRequests", Answer(out), TRUE),
              out |-> out, err |-> NoErr, isNil |-> FALSE]

CancelSpotInstanceRequests(s, id) ==
    IF Failing(s) \/ ~\E i \in 1..Len(s.requests) : s.requests[i].SpotInstanceRequestId = id
    THEN Failed(s, "CancelSpotInstanceRequests", id, ApiError("CancelSpotInstanceRequests"))
    ELSE LET i == CHOOSE j \in 1..Len(s.requests) : s.requests[j].SpotInstanceRequestId = id
         IN  [s |-> Logged([s EXCEPT !.requests[i].State = "cancelled"],
                           "CancelSpotInstanceRequests", id, TRUE),
              out |-> Nil, err |-> NoErr, isNil |-> FALSE]

\* EC2 rejects an ID that names no instance
TerminateInstances(s, id) ==
    IF Failing(s) \/ ~\E i \in 1..Len(s.instances) : s.instances[i].InstanceId = id
    THEN Failed(s, "TerminateInstances", id, ApiError("TerminateInstances"))
    ELSE LET i == CHOOSE j \in 1..Len(s.instances) : s.instances[j].InstanceId = id
         IN  [s |-> Logged([s EXCEPT !.instances[i].State = "terminated"],
                           "TerminateInstances", id, TRUE),
              out |-> Nil, err |-> NoErr, isNil |-> FALSE]

CreateTags(s, resource, tags) ==
    IF Failing(s) \/ ~\E i \in 1..Len(s.instances) : s.instances[i].InstanceId = resource
    THEN Failed(s, "CreateTags", resource, ApiError("CreateTags"))
    ELSE LET i == CHOOSE j \in 1..Len(s.instances) : s.instances[j].InstanceId = resource
         IN  [s |-> Logged([s EXCEPT !.instances[i].Tags = @ \o tags],
                           "CreateTags", resource, TRUE),
              out |-> Nil, err |-> NoErr, isNil |-> FALSE]

\* IAM: the instance profile of the launch (GetDevpodInstanceProfile)
GetInstanceProfile(s, cfg) ==
    IF cfg.InstanceProfileArn # ""
    THEN [s |-> s, out |-> cfg.InstanceProfileArn, err |-> NoErr, isNil |-> FALSE]
    ELSE IF Failing(s) THEN Failed(s, "GetInstanceProfile", "", ApiError("GetInstanceProfile"))
    ELSE [s |-> Logged(s, "GetInstanceProfile", "", TRUE),
          out |-> "arn:devpod-ec2-role", err |-> NoErr, isNil |-> FALSE]

----------------------------------------------------------------------------
(* pkg/aws/spot.go: the spot launcher and the spot deletion *)

ErrNoMatchingSubnet(vpc) ==
    "could not find a matching SubnetID in VPC " \o vpc \o ", please specify one"
ErrKeypair == "read public key"

\* CreateSpotInstance, to the submission of the request: [s, val, err, crash], val
\* the ID of the request in result.  s.keypair says whether
\* GetInjectKeypairScript finds the machine's key.
SubmitSpotRequest(s, cfg) ==
    Bind(IF cfg.VpcID # "" /\ cfg.SubnetID = ""
         THEN GetSubnetID(s, cfg) ELSE Return(s, "", NoErr), LAMBDA subnetID :
        IF subnetID.err # NoErr THEN subnetID
        ELSE IF cfg.VpcID # "" /\ cfg.SubnetID = "" /\ subnetID.val = ""
        THEN Return(subnetID.s, "", ErrNoMatchingSubnet(cfg.VpcID))
        ELSE
    Bind(GetDevpodSecurityGroup(subnetID.s, cfg), LAMBDA devpodSG :
        IF devpodSG.err # NoErr THEN devpodSG
        ELSE IF ~s.keypair THEN Return(devpodSG.s, "", ErrKeypair)
        ELSE
    Bind(GetInstanceProfile(devpodSG.s, cfg), LAMBDA profile :
    Bind(RequestSpotInstances(profile.s,
             [InstanceType |-> cfg.MachineType,
              SecurityGroupIds |-> <<devpodSG.val>>,
              VolumeSize |-> cfg.DiskSizeGB,
              ImageId |-> cfg.DiskImage,
              SubnetId |-> IF cfg.SubnetID # "" THEN cfg.SubnetID ELSE subnetID.val,
              IamInstanceProfile |-> IF profile.err = NoErr THEN profile.out ELSE ""],
             <<Tag("devpod", cfg.MachineID)>>),
         LAMBDA result :
        IF result.err # NoErr THEN Return(result.s, "", result.err)
        ELSE Return(result.s, result.out[1].SpotInstanceRequestId, NoErr)))))

\* the test without its last clause: the status alone ends the loop
FulfilledByStatus(list) == Len(list) > 0 /\ list[1].Status = "fulfilled"

\* the test that ends the loop: a listed request, "fulfilled", with an instance ID
Fulfilled(list) ==
    Len(list) > 0 /\ list[1].Status = "fulfilled" /\ list[1].InstanceId # ""

\* the end of CreateSpotInstance, or one more turn of its loop
Ended(r) ==
    [s |-> r.s, val |-> r.val, ids |-> r.ids, err |-> r.err, crash |-> r.crash,
     again |-> FALSE]
Sleeps(r) == [Ended(r) EXCEPT !.again = TRUE]

\* one turn of a loop that gives up: an answer that is not the fulfilled one ends
\* the operation with an error instead of another turn
PollSpotRequestGivingUp(s, cfg, result, visible) ==
    Bind(DescribeSpotInstanceRequestsById(s, result, visible), LAMBDA instanceRequests :
        IF instanceRequests.err # NoErr
        THEN Ended(Return(instanceRequests.s, "", instanceRequests.err))
        ELSE IF ~Fulfilled(instanceRequests.out)
        THEN Ended(Return(instanceRequests.s, "", "spot request was not fulfilled in time"))
        ELSE
    Bind(CreateTags(instanceRequests.s, instanceRequests.out[1].InstanceId,
                    <<Tag("devpod", cfg.MachineID)>>),
         LAMBDA tagged :
        IF tagged.err # NoErr THEN Ended(Return(tagged.s, "", tagged.err))
        ELSE Ended(Return(tagged.s, result, NoErr))))

\* One turn of the loop of CreateSpotInstance: a status poll, and on the
\* fulfilled answer the tagging of the instance and the return of result.
\* [s, val, err, crash, again]: again says the loop sleeps and polls once more.
PollSpotRequest(s, cfg, result, visible) ==
    Bind(DescribeSpotInstanceRequestsById(s, result, visible), LAMBDA instanceRequests :
        IF instanceRequests.err # NoErr
        THEN Ended(Return(instanceRequests.s, "", instanceRequests.err))
        ELSE IF ~Fulfilled(instanceRequests.out)
        THEN Sleeps(Return(instanceRequests.s, "", NoErr))
        ELSE
    Bind(CreateTags(instanceRequests.s, instanceRequests.out[1].InstanceId,
                    <<Tag("devpod", cfg.MachineID)>>),
         LAMBDA tagged :
        IF tagged.err # NoErr THEN Ended(Return(tagged.s, "", tagged.err))
        ELSE Ended(Return(tagged.s, result, NoErr))))

\* DeleteSpot with the error of the cancellation dropped
DeleteSpotDroppingCancelError(s, instanceID) ==
    Bind(DescribeSpotInstanceRequestsByTag(s, instanceID), LAMBDA spotInstanceReqs :
        IF spotInstanceReqs.err # NoErr
        THEN Return(spotInstanceReqs.s, "", spotInstanceReqs.err)
        ELSE IF Len(spotInstanceReqs.out) = 0
        THEN Panic(spotInstanceReqs.s, "index out of range [0] with length 0")
        ELSE
    Bind(CancelSpotInstanceRequests(spotInstanceReqs.s,
                                    spotInstanceReqs.out[1].SpotInstanceRequestId),
         LAMBDA cancel :
    Bind(TerminateInstances(cancel.s, instanceID), LAMBDA terminate :
        IF terminate.err # NoErr THEN Return(terminate.s, "", terminate.err)
        ELSE Return(terminate.s, "", NoErr))))

DeleteSpot(s, instanceID) ==
    Bind(DescribeSpotInstanceRequestsByTag(s, instanceID), LAMBDA spotInstanceReqs :
        IF spotInstanceReqs.err # NoErr
        THEN Return(spotInstanceReqs.s, "", spotInstanceReqs.err)
        ELSE IF Len(spotInstanceReqs.out) = 0
        THEN Panic(spotInstanceReqs.s, "index out of range [0] with length 0")
        ELSE
    Bind(CancelSpotInstanceRequests(spotInstanceReqs.s,
                                    spotInstanceReqs.out[1].SpotInstanceRequestId),
         LAMBDA cancel :
        IF cancel.err # NoErr THEN Return(cancel.s, "", cancel.err)
        ELSE
    Bind(TerminateInstances(cancel.s, instanceID), LAMBDA terminate :
        IF terminate.err # NoErr THEN Return(terminate.s, "", terminate.err)
        ELSE Return(terminate.s, "", NoErr))))

----------------------------------------------------------------------------
(* cmd/command.go: the command executor *)

ErrCommandMissing == "command environment variable is missing"
ErrLoadPrivateKey == "load private key: open id_devpod_rsa: no such file or directory"
ErrNoInstance(machine) == "instance " \o machine \o " doesn't exist"
ErrNotReachable(machine) == "instance " \o machine \o " is not reachable"

\* aws.GetDevpodRunningInstance: the running instances that carry the machine
\* identifier as their devpod tag, one reservation each
GetDevpodRunningInstance(s, machine) ==
    IF Failing(s) THEN Failed(s, "DescribeInstances", machine, ApiError("DescribeInstances"))
    ELSE LET Match(i) == HasTag(i, "devpod", machine) /\ i.State = "running"
         IN  [s |-> Logged(s, "DescribeInstances", machine, TRUE),
              out |-> SelectSeq(s.instances, Match), err |-> NoErr, isNil |-> FALSE]

\* ssh.NewSSHClient: one connection attempt, which reaches the address or not
NewSSHClient(s, addr, reachable) ==
    [s |-> Logged(s, "ssh.NewSSHClient", addr, addr \in reachable),
     connected |-> addr \in reachable, addr |-> addr]

NotTried(s) == [s |-> s, connected |-> FALSE, addr |-> ""]

\* the fallback left out: the private address is never tried
SkipPrivateIp(s, instance, reachable) == NotTried(s)

\* "try public ip" and "try private ip": an attempt if the address is set
TryPublicIp(s, instance, reachable) ==
    IF instance.PublicIpAddress = "" THEN NotTried(s)
    ELSE NewSSHClient(s, instance.PublicIpAddress \o ":22", reachable)

TryPrivateIp(s, instance, reachable) ==
    IF instance.PrivateIpAddress = "" THEN NotTried(s)
    ELSE NewSSHClient(s, instance.PrivateIpAddress \o ":22", reachable)

\* CommandCmd.Run.  keyOk: the private key of the machine folder can be read;
\* reachable: the addresses that accept the connection; exit: what ssh.Run
\* returns for the command.  val is the address the command ran on.
Run(s, cfg, environ, keyOk, reachable, exit) ==
    IF Getenv(environ, COMMAND) = "" THEN Return(s, "", ErrCommandMissing)
    ELSE IF ~keyOk THEN Return(s, "", ErrLoadPrivateKey)
    ELSE
    Bind(GetDevpodRunningInstance(s, cfg.MachineID), LAMBDA instance :
        IF instance.err # NoErr THEN Return(instance.s, "", instance.err)
        ELSE IF Len(instance.out) = 0
        THEN Return(instance.s, "", ErrNoInstance(cfg.MachineID))
        ELSE
    Bind(TryPublicIp(instance.s, instance.out[1], reachable), LAMBDA public :
        IF public.connected THEN Return(public.s, public.addr, exit)
        ELSE
    Bind(TryPrivateIp(public.s, instance.out[1], reachable), LAMBDA private :
        IF private.connected THEN Return(private.s, private.addr, exit)
        ELSE Return(private.s, "", ErrNotReachable(cfg.MachineID)))))

----------------------------------------------------------------------------
(* The state machine *)

Idle == [pc |-> "idle", result |-> ""]

NoOutcome ==
    [op |-> "", val |-> "", ids |-> <<>>, err |-> NoErr, crash |-> FALSE, calls |-> <<>>]

\* the store after the calls of r
StoreAfter(r) ==
    /\ vpcs' = r.s.vpcs
    /\ sgs' = r.s.sgs
    /\ subnets' = r.s.subnets
    /\ rtbs' = r.s.rtbs
    /\ requests' = r.s.requests
    /\ instances' = r.s.instances

\* An operation ends: the store holds what its calls did, last what it returned.
Finish(op, r) ==
    /\ StoreAfter(r)
    /\ last' = [op |-> op, val |-> r.val, ids |-> r.ids, err |-> r.err, crash |-> r.crash,
                calls |-> r.s.calls]
    /\ UNCHANGED <<env, provider, proc>>

\* The calls of an operation the environment may fail: those of its run r without
\* an injected failure (a failed call ends every operation of this program), 0 for none.
Failures(r) == 0..Len(r.s.calls)

\* the environment of a process: the required options set, the network ones free
BaseEnv ==
    [n \in EnvNames |->
        CASE n = AWS_INSTANCE_TYPE -> "t2.micro"
          [] n = AWS_DISK_SIZE -> "40"
          [] n = MACHINE_ID -> "m1"
          [] n = MACHINE_FOLDER -> "/machines/m1"
          [] n = COMMAND -> "ls"
          [] OTHER -> ""]

NetworkEnvs ==
    {[BaseEnv EXCEPT ![AWS_VPC_ID] = v, ![AWS_SUBNET_ID] = sn,
                     ![AWS_SECURITY_GROUP_ID] = g, ![AWS_CREATE_VPC] = c] :
        v \in {"", "vpc-c"}, sn \in {"", "subnet-x"}, g \in {"", "sg-x"}, c \in {"", "true"}}

\* aws.NewProvider: a process starts, once the one before it has ended, and
\* loads its configuration
NewProvider ==
    LET loaded == FromEnv(FALSE, env)
    IN  /\ proc.pc # "polling"
        /\ provider' = loaded.opts
        /\ last' = [NoOutcome EXCEPT !.op = "NewProvider", !.err = loaded.err]
        /\ proc' = Idle
        /\ UNCHANGED <<vpcs, sgs, subnets, rtbs, requests, instances, env>>

CallGetDevpodVPC ==
    /\ provider # Nil
    /\ proc.pc = "idle"
    /\ \E fail \in Failures(GetDevpodVPC(Session(0), provider)) :
           \E r \in {GetDevpodVPC(Session(fail), provider)} : Finish("GetDevpodVPC", r)

CallGetDevpodSecurityGroup ==
    /\ provider # Nil
    /\ proc.pc = "idle"
    /\ \E fail \in Failures(GetDevpodSecurityGroup(Session(0), provider)) :
           \E r \in {GetDevpodSecurityGroup(Session(fail), provider)} : Finish("GetDevpodSecurityGroup", r)

CallGetSubnetID ==
    /\ provider # Nil
    /\ proc.pc = "idle"
    /\ \E fail \in Failures(GetSubnetID(Session(0), provider)) :
           \E r \in {GetSubnetID(Session(fail), provider)} : Finish("GetSubnetID", r)

CallGetDevpodSubnet ==
    /\ provider # Nil
    /\ proc.pc = "idle"
    /\ \E fail \in Failures(GetDevpodSubnet(Session(0), provider)) :
           \E r \in {GetDevpodSubnet(Session(fail), provider)} : Finish("GetDevpodSubnet", r)

CallCreateDevpodSubnet ==
    /\ provider # Nil
    /\ proc.pc = "idle"
    /\ \E fail \in Failures(CreateDevpodSubnet(Session(0), provider)) :
           \E r \in {CreateDevpodSubnet(Session(fail), provider)} : Finish("CreateDevpodSubnet", r)

CallResolveNetwork ==
    /\ provider # Nil
    /\ proc.pc = "idle"
    /\ \E fail \in Failures(ResolveNetwork(Session(0), provider)) :
           \E r \in {ResolveNetwork(Session(fail), provider)} : Finish("ResolveNetwork", r)

\* the VPCs, security groups and subnets an account may hold before the program runs
VpcUniverse ==
    << [VpcId |-> "vpc-a", CidrBlock |-> "172.31.0.0/16", Tags |-> <<>>, IsDefault |-> TRUE],
       [VpcId |-> "vpc-b", CidrBlock |-> "10.0.0.0/16",
        Tags |-> <<Tag("env", "devpod"), Tag("Name", "my-devpod-net")>>, IsDefault |-> FALSE],
       [VpcId |-> "vpc-c", CidrBlock |-> "10.2.0.0/16",
        Tags |-> <<Tag("Name", "prod")>>, IsDefault |-> FALSE] >>

SubnetUniverse ==
    << [SubnetId |-> "subnet-a", VpcId |-> "vpc-a", CidrBlock |-> "172.31.0.0/24",
        Tags |-> <<Tag("devpod", "devpod")>>, MapPublicIpOnLaunch |-> TRUE,
        AvailableIpAddressCount |-> 1] >>

Init ==
    /\ vpcs \in SubSeqsOf(VpcUniverse)
    /\ sgs = <<>>
    /\ subnets \in SubSeqsOf(SubnetUniverse)
    /\ rtbs = <<>>
    /\ requests = <<>>
    /\ instances = <<>>
    /\ env \in NetworkEnvs
    /\ provider = Nil
    /\ proc = Idle
    /\ last = NoOutcome

Next ==
    \/ NewProvider
    \/ CallGetDevpodVPC
    \/ CallGetDevpodSecurityGroup
    \/ CallGetSubnetID
    \/ CallGetDevpodSubnet
    \/ CallCreateDevpodSubnet
    \/ CallResolveNetwork

Spec == Init /\ [][Next]_vars

----------------------------------------------------------------------------
(* The spot launcher and the spot deletion as a state machine *)

\* the session of a process that goes on after the calls already in last
Resumed(failNow) ==
    [Session(IF failNow THEN Len(last.calls) + 1 ELSE 0) EXCEPT !.calls = last.calls]

Polls(calls) ==
    Cardinality({i \in 1..Len(calls) : calls[i].api = "DescribeSpotInstanceRequests"})

Submitted(r) ==
    /\ StoreAfter(r)
    /\ proc' = IF r.err = NoErr THEN [pc |-> "polling", result |-> r.val] ELSE Idle
    /\ last' = [op |-> "CreateSpotInstance", val |-> "", ids |-> <<>>,
                err |-> r.err, crash |-> r.crash, calls |-> r.s.calls]
    /\ UNCHANGED <<env, provider>>

\* CreateSpotInstance starts: the network lookups and the submission of the request
CallCreateSpotInstance ==
    /\ provider # Nil
    /\ proc.pc = "idle"
    /\ \E keypair \in BOOLEAN :
       \E fail \in Failures(SubmitSpotRequest(Session(0), provider)) :
           \E r \in {SubmitSpotRequest([Session(fail) EXCEPT !.keypair = keypair], provider)} :
               Submitted(r)

Polled(r) ==
    /\ Polls(last.calls) < MaxPolls \/ (~r.again /\ r.err = NoErr)
    /\ StoreAfter(r)
    /\ proc' = IF r.again THEN proc ELSE Idle
    /\ last' = [op |-> "CreateSpotInstance", val |-> r.val, ids |-> <<>>,
                err |-> r.err, crash |-> r.crash, calls |-> r.s.calls]
    /\ UNCHANGED <<env, provider>>

\* CreateSpotInstance goes on: one status poll.  After MaxPolls polls the model
\* waits for EC2 to fulfil the request before it polls again.
PollSpotInstance ==
    /\ proc.pc = "polling"
    /\ \E failNow \in BOOLEAN, visible \in BOOLEAN :
           \E r \in {PollSpotRequest(Resumed(failNow), provider, proc.result, visible)} :
               Polled(r)

\* EC2 fulfils an open request
Ec2Fulfil ==
    \E i \in 1..Len(requests) :
        /\ requests[i].State = "open"
        /\ requests[i].Status = "pending-evaluation"
        /\ requests' = [requests EXCEPT ![i].State = "active", ![i].Status = "fulfilled"]
        /\ UNCHANGED <<vpcs, sgs, subnets, rtbs, instances, env, provider, proc, last>>

\* EC2 launches the instance of a fulfilled request and attaches its ID
Ec2Launch ==
    \E i \in 1..Len(requests) :
        /\ requests[i].State = "active"
        /\ requests[i].Status = "fulfilled"
        /\ requests[i].InstanceId = ""
        /\ LET id == NewId("i", Len(instances) + 1)
           IN  /\ instances' = Append(instances,
                       [InstanceId |-> id, Tags |-> <<>>, State |-> "running",
                        PublicIpAddress |-> "", PrivateIpAddress |-> "10.0.0.10"])
               /\ requests' = [requests EXCEPT ![i].InstanceId = id]
        /\ UNCHANGED <<vpcs, sgs, subnets, rtbs, env, provider, proc, last>>

\* DeleteSpot, called with the machine identifier or with the ID of an instance
CallDeleteSpot ==
    /\ provider # Nil
    /\ proc.pc = "idle"
    /\ \E instanceID \in {provider.MachineID} \cup {instances[i].InstanceId : i \in 1..Len(instances)} :
       \E fail \in Failures(DeleteSpot(Session(0), instanceID)) :
           \E r \in {DeleteSpot(Session(fail), instanceID)} :
               Finish("DeleteSpot", [r EXCEPT !.val = instanceID])

\* the environments of the launches: the network IDs configured, or only some
SpotEnvs ==
    {[BaseEnv EXCEPT ![AWS_VPC_ID] = "vpc-c", ![AWS_SUBNET_ID] = "subnet-x",
                     ![AWS_SECURITY_GROUP_ID] = g] : g \in {"", "sg-x"}}

LaunchEnvs ==
    {[BaseEnv EXCEPT ![AWS_VPC_ID] = "vpc-c", ![AWS_SECURITY_GROUP_ID] = "sg-x",
                     ![AWS_INSTANCE_PROFILE_ARN] = "arn:profile"]}

\* the subnets an account may hold before a launch
LaunchSubnetUniverse ==
    << [SubnetId |-> "subnet-c1", VpcId |-> "vpc-c", CidrBlock |-> "10.2.1.0/24",
        Tags |-> <<>>, MapPublicIpOnLaunch |-> TRUE, AvailableIpAddressCount |-> 1],
       [SubnetId |-> "subnet-c2", VpcId |-> "vpc-c", CidrBlock |-> "10.2.2.0/24",
        Tags |-> <<>>, MapPublicIpOnLaunch |-> TRUE, AvailableIpAddressCount |-> 2],
       [SubnetId |-> "subnet-c3", VpcId |-> "vpc-c", CidrBlock |-> "10.2.3.0/24",
        Tags |-> <<>>, MapPublicIpOnLaunch |-> FALSE, AvailableIpAddressCount |-> 3],
       [SubnetId |-> "subnet-a1", VpcId |-> "vpc-a", CidrBlock |-> "172.31.1.0/24",
        Tags |-> <<>>, MapPublicIpOnLaunch |-> TRUE, AvailableIpAddressCount |-> 3],
       [SubnetId |-> "subnet-a2", VpcId |-> "vpc-a", CidrBlock |-> "172.31.2.0/24",
        Tags |-> <<Tag("devpod", "devpod")>>, MapPublicIpOnLaunch |-> FALSE,
        AvailableIpAddressCount |-> 1],
       [SubnetId |-> "subnet-c0", VpcId |-> "vpc-c", CidrBlock |-> "10.2.0.0/24",
        Tags |-> <<>>, MapPublicIpOnLaunch |-> TRUE, AvailableIpAddressCount |-> 0] >>

InitSpot ==
    /\ vpcs = <<VpcUniverse[1], VpcUniverse[3]>>
    /\ sgs = <<>>
    /\ subnets = <<>>
    /\ rtbs = <<>>
    /\ requests = <<>>
    /\ instances = <<>>
    /\ env \in SpotEnvs
    /\ provider = Nil
    /\ proc = Idle
    /\ last = NoOutcome

NextSpot ==
    \/ NewProvider
    \/ CallCreateSpotInstance
    \/ PollSpotInstance
    \/ Ec2Fulfil
    \/ Ec2Launch
    \/ CallDeleteSpot

SpecSpot == InitSpot /\ [][NextSpot]_vars

\* The loop of CreateSpotInstance never stops by itself: after each sleep it
\* polls again, so a poll that can be made is made.
SpecSpotLive == SpecSpot /\ WF_vars(PollSpotInstance)

\* a closed request of another machine that the account still lists
ForeignRequest ==
    [SpotInstanceRequestId |-> "sir-old", Type |-> "persistent",
     Tags |-> <<Tag("devpod", "devpod-other")>>, State |-> "cancelled",
     Status |-> "request-canceled-and-instance-running", InstanceId |-> "",
     LaunchSpecification |-> Nil]

\* A launch with a VPC configured and no subnet, for every set of subnets
InitLaunch ==
    /\ vpcs = <<VpcUniverse[1], VpcUniverse[3]>>
    /\ sgs = <<>>
    /\ subnets \in SubSeqsOf(LaunchSubnetUniverse)
    /\ rtbs = <<>>
    /\ requests = <<ForeignRequest>>
    /\ instances = <<>>
    /\ env \in LaunchEnvs
    /\ provider = Nil
    /\ proc = Idle
    /\ last = NoOutcome

NextLaunch ==
    \/ NewProvider
    \/ CallCreateSpotInstance
    \/ PollSpotInstance
    \/ Ec2Fulfil
    \/ Ec2Launch

SpecLaunch == InitLaunch /\ [][NextLaunch]_vars

----------------------------------------------------------------------------
(* The options loader and the command executor as a state machine *)

\* the init command: FromEnv(true), after which the process ends
CallInit ==
    LET loaded == FromEnv(TRUE, env)
    IN  /\ proc.pc = "idle"
        /\ provider' = loaded.opts
        /\ last' = [NoOutcome EXCEPT !.op = "Init", !.err = loaded.err]
        /\ proc' = [pc |-> "done", result |-> ""]
        /\ UNCHANGED <<vpcs, sgs, subnets, rtbs, requests, instances, env>>

\* the addresses an instance of the model may have
PublicIps == {"", "54.0.0.1"}
PrivateIps == {"", "10.0.0.10"}
Addresses == {ip \o ":22" : ip \in (PublicIps \cup PrivateIps) \ {""}}

\* the command operation: CommandCmd.Run in a process whose NewProvider succeeded
CallCommand ==
    /\ provider # Nil
    /\ proc.pc = "idle"
    /\ \E keyOk \in BOOLEAN, reachable \in SUBSET Addresses,
          exit \in {NoErr, "Process exited with status 1"}, fail \in {0, 1} :
           \E r \in {Run(Session(fail), provider, env, keyOk, reachable, exit)} :
               Finish("Command", r)

\* the environments of the command: each required variable set or not, the disk
\* size a number or not
CmdEnvs ==
    {[BaseEnv EXCEPT ![AWS_INSTANCE_TYPE] = t, ![AWS_DISK_SIZE] = d, ![MACHINE_ID] = m,
                     ![MACHINE_FOLDER] = f, ![COMMAND] = c] :
        t \in {"", "t2.micro"}, d \in {"", "40", "4x"}, m \in {"", "m1"},
        f \in {"", "/machines/m1"}, c \in {"", "ls"}}

\* the instance of the machine, with or without each address
MachineInstances ==
    {<<>>} \cup
    {<<[InstanceId |-> "i-1", Tags |-> <<Tag("devpod", "devpod-m1")>>, State |-> "running",
        PublicIpAddress |-> pub, PrivateIpAddress |-> priv]>> :
        pub \in PublicIps, priv \in PrivateIps}

InitCmd ==
    /\ vpcs = <<>>
    /\ sgs = <<>>
    /\ subnets = <<>>
    /\ rtbs = <<>>
    /\ requests = <<>>
    /\ instances \in MachineInstances
    /\ env \in CmdEnvs
    /\ provider = Nil
    /\ proc = Idle
    /\ last = NoOutcome

NextCmd ==
    \/ NewProvider
    \/ CallInit
    \/ CallCommand

SpecCmd == InitCmd /\ [][NextCmd]_vars

----------------------------------------------------------------------------
(* The lookups of the program as a state machine: the subnet searches, the
   spot deletion and the command, for accounts that hold what they look for
   or not *)

\* the subnets an account may hold before a lookup
LookupSubnetUniverse ==
    << LaunchSubnetUniverse[1], LaunchSubnetUniverse[5],
       [SubnetId |-> "subnet-d", VpcId |-> "vpc-c", CidrBlock |-> "10.2.4.0/24",
        Tags |-> <<Tag("Name", "devpod")>>, MapPublicIpOnLaunch |-> FALSE,
        AvailableIpAddressCount |-> 2] >>

\* an open request of the machine of BaseEnv
MachineRequest ==
    [SpotInstanceRequestId |-> "sir-m1", Type |-> "persistent",
     Tags |-> <<Tag("devpod", "devpod-m1")>>, State |-> "open",
     Status |-> "pending-evaluation", InstanceId |-> "", LaunchSpecification |-> Nil]

LookupEnvs == {[BaseEnv EXCEPT ![AWS_VPC_ID] = v] : v \in {"", "vpc-c"}}

InitLookup ==
    /\ vpcs = <<VpcUniverse[1], VpcUniverse[3]>>
    /\ sgs = <<>>
    /\ subnets \in SubSeqsOf(LookupSubnetUniverse)
    /\ rtbs = <<>>
    /\ requests \in {<<>>, <<ForeignRequest>>, <<MachineRequest>>}
    /\ instances \in MachineInstances
    /\ env \in LookupEnvs
    /\ provider = Nil
    /\ proc = Idle
    /\ last = NoOutcome

NextLookup ==
    \/ NewProvider
    \/ CallGetSubnetID
    \/ CallGetDevpodSubnet
    \/ CallDeleteSpot
    \/ CallCommand

SpecLookup == InitLookup /\ [][NextLookup]_vars

----------------------------------------------------------------------------
(* Properties of the network resolver, checked under Spec *)

\* the calls of a log that create a resource
CreateApis ==
    {"CreateVpc", "CreateSecurityGroup", "CreateSubnet", "CreateRouteTable", "CreateRoute"}
CreateCalls(calls) == {i \in 1..Len(calls) : calls[i].api \in CreateApis}
FailedCalls(calls) == {i \in 1..Len(calls) : ~calls[i].ok}

\* the calls the environment failed: an injected error or the request limit
InjectedFailures(calls) ==
    {i \in 1..Len(calls) :
        calls[i].err \in {ApiError(calls[i].api), LimitExceeded(calls[i].api)}}

NoExplicitIds(cfg) == cfg.VpcID = "" /\ cfg.SubnetID = "" /\ cfg.SecurityGroupID = ""

\* the resolver returned three IDs after it had to create something
ResolvedCreating(outcome) ==
    /\ outcome.op = "ResolveNetwork"
    /\ outcome.err = NoErr
    /\ ~outcome.crash
    /\ CreateCalls(outcome.calls) # {}

\* C1: with no explicit ID configured, a second invocation of the resolver that
\* follows a first one which had to create resources returns the same VPC,
\* subnet and security-group IDs as the first and issues no create call.
C1_Idempotent ==
    [][(/\ provider # Nil
        /\ NoExplicitIds(provider)
        /\ ResolvedCreating(last)
        /\ last'.op = "ResolveNetwork"
        /\ InjectedFailures(last'.calls) = {})
       => (/\ last'.err = NoErr
           /\ last'.ids = last.ids
           /\ CreateCalls(last'.calls) = {})]_vars

\* the operation of the resolver that reads each explicit ID
ExplicitIdOf(cfg, op) ==
    CASE op = "GetDevpodVPC" -> cfg.VpcID
      [] op = "GetSubnetID" -> cfg.SubnetID
      [] op = "GetDevpodSecurityGroup" -> cfg.SecurityGroupID
      [] OTHER -> ""

\* C2: when the explicit VPC, subnet or security-group ID is set, GetDevpodVPC,
\* GetSubnetID or GetDevpodSecurityGroup returns exactly that ID without an
\* error, issues no call at all, and leaves the cloud resource store as it was.
C2_ExplicitIdVerbatim ==
    [][(provider # Nil /\ ExplicitIdOf(provider, last'.op) # "")
       => (/\ last'.val = ExplicitIdOf(provider, last'.op)
           /\ last'.err = NoErr
           /\ ~last'.crash
           /\ last'.calls = <<>>
           /\ UNCHANGED <<vpcs, sgs, subnets, rtbs, requests, instances>>)]_vars

\* C2 happens: each of the three operations has returned its explicit ID
C2_Witness ==
    /\ provider # Nil
    /\ provider.VpcID # "" /\ provider.SubnetID # "" /\ provider.SecurityGroupID # ""
    /\ last.op = "GetDevpodSecurityGroup"
    /\ last.val = provider.SecurityGroupID
    /\ last.calls = <<>>

VpcIds(list) == {list[i].VpcId : i \in 1..Len(list)}
NamedVpcIds(list) == {list[i].VpcId : i \in {j \in 1..Len(list) : NamedDevpod(list[j])}}
DefaultVpcIds(list) == {list[i].VpcId : i \in {j \in 1..Len(list) : list[j].IsDefault}}

\* a VPC of the list with this ID carries the machine identifier as a tag value
TaggedWithMachine(list, id, cfg) ==
    \E i \in 1..Len(list) :
        /\ list[i].VpcId = id
        /\ \E k \in 1..Len(list[i].Tags) : list[i].Tags[k].Value = cfg.MachineID

\* C7: for every set of existing VPCs, the empty one included, GetDevpodVPC
\* returns (1) the explicit ID; else (2) an existing VPC whose Name tag contains
\* "devpod"; else (3) with the create flag set, a newly created VPC tagged with
\* the machine identifier; else (4) the default VPC; else (5) it fails with
\* "no suitable VPC found".
C7_Precedence ==
    [][(provider # Nil /\ last'.op = "GetDevpodVPC" /\ InjectedFailures(last'.calls) = {})
       => IF provider.VpcID # ""
          THEN last'.err = NoErr /\ last'.val = provider.VpcID
          ELSE IF NamedVpcIds(vpcs) # {}
          THEN last'.err = NoErr /\ last'.val \in NamedVpcIds(vpcs)
          ELSE IF provider.CreateVpc
          THEN /\ last'.err = NoErr
               /\ last'.val \in VpcIds(vpcs') \ VpcIds(vpcs)
               /\ TaggedWithMachine(vpcs', last'.val, provider)
          ELSE IF DefaultVpcIds(vpcs) # {}
          THEN last'.err = NoErr /\ last'.val \in DefaultVpcIds(vpcs)
          ELSE last'.err = ErrNoSuitableVpc /\ last'.val = ""]_vars

ResolverOps ==
    {"GetDevpodVPC", "GetDevpodSecurityGroup", "GetSubnetID", "GetDevpodSubnet",
     "CreateDevpodSubnet", "ResolveNetwork"}

\* C8: in the network resolver a failed API call is the last call of the
\* operation (no further create, no retry) and its error is what the operation
\* returns; a failed security-group lookup creates no security group.
C8_ErrorsPropagate ==
    last.op \in ResolverOps =>
        \A i \in FailedCalls(last.calls) :
            /\ i = Len(last.calls)
            /\ ~last.crash
            /\ last.err = last.calls[i].err

\* a security group of the store with this ID has inbound TCP/22 authorized
AllowsSsh(list, id) ==
    \E i \in 1..Len(list) :
        /\ list[i].GroupId = id
        /\ \E k \in 1..Len(list[i].IpPermissions) :
              LET perm == list[i].IpPermissions[k]
              IN  perm.IpProtocol = "tcp" /\ perm.FromPort <= 22 /\ 22 <= perm.ToPort

\* C13: with no explicit ID configured, every security-group ID that
\* GetDevpodSecurityGroup returns refers to a group with inbound TCP/22
\* authorized, after any sequence of resolver invocations, those included in
\* which CreateDevpodSecurityGroup created and tagged the group and failed
\* before the ingress rule was authorized.
C13_ReturnedGroupAllowsSsh ==
    (/\ provider # Nil
     /\ provider.SecurityGroupID = ""
     /\ last.op = "GetDevpodSecurityGroup"
     /\ last.err = NoErr
     /\ ~last.crash)
    => AllowsSsh(sgs, last.val)

----------------------------------------------------------------------------
(* Properties of the spot launcher and the spot deletion, checked under
   SpecSpot and SpecLaunch *)

CallsOf(calls, api) == {i \in 1..Len(calls) : calls[i].api = api}
StatusPolls(calls) == CallsOf(calls, "DescribeSpotInstanceRequests")
TaggingCalls(calls) == CallsOf(calls, "CreateTags")

\* a poll answered "fulfilled" with this instance ID attached
AnsweredFulfilled(call, instance) ==
    call.ok /\ instance # "" /\ call.arg = "fulfilled/" \o instance

\* a poll answered "fulfilled" with some instance ID attached
AnsweredFulfilledAny(call) ==
    call.ok /\ Len(call.arg) > Len("fulfilled/")
            /\ SubSeq(call.arg, 1, Len("fulfilled/")) = "fulfilled/"

\* CreateSpotInstance has returned without an error
LaunchReturned ==
    last.op = "CreateSpotInstance" /\ proc.pc = "idle" /\ last.err = NoErr /\ ~last.crash

\* The polls and the tagging of a launch: every tagging call directly follows a
\* poll answered "fulfilled" with the instance it tags, and a launch that
\* returned made k + 1 polls, the first k not answered "fulfilled" with an
\* instance and the last one answered so, and one tagging call.
PollsThenTagsOnce ==
    /\ last.op = "CreateSpotInstance" =>
         \A t \in TaggingCalls(last.calls) :
            /\ t > 1
            /\ t - 1 \in StatusPolls(last.calls)
            /\ AnsweredFulfilled(last.calls[t - 1], last.calls[t].arg)
    /\ LaunchReturned =>
         /\ TaggingCalls(last.calls) = {Len(last.calls)}
         /\ \A p \in StatusPolls(last.calls) :
                AnsweredFulfilledAny(last.calls[p]) <=> p = Len(last.calls) - 1

\* C3 as stated: k + 1 polls, the tagging of exactly the fulfilled instance
\* after the fulfilled response, and the instance ID of that response returned.
C3_ReturnsInstanceId ==
    /\ PollsThenTagsOnce
    /\ LaunchReturned => last.val = last.calls[Len(last.calls)].arg

\* C3: for k non-fulfilled responses and then a fulfilled one with an instance
\* ID, CreateSpotInstance polls exactly k + 1 times, tags exactly that instance
\* and nothing else, after the fulfilled response, and returns the output of
\* RequestSpotInstances (the request it submitted), not the instance ID.
C3_PollsTagsReturnsRequest ==
    /\ PollsThenTagsOnce
    /\ LaunchReturned =>
         \E r \in CallsOf(last.calls, "RequestSpotInstances") :
            last.calls[r].ok /\ last.val = last.calls[r].arg

\* C3 happens: a launch has returned after two polls that were not answered
\* "fulfilled" with an instance and a third that was
C3_Witness ==
    /\ LaunchReturned
    /\ Cardinality(StatusPolls(last.calls)) = 3
    /\ \E i \in 1..Len(instances) :
          /\ instances[i].InstanceId = last.calls[Len(last.calls)].arg
          /\ HasTag(instances[i], "devpod", provider.MachineID)

\* C5: DeleteSpot looks the spot request up by the devpod tag, cancels it before
\* it terminates the instance, never issues the termination after a failed
\* cancellation, and returns the error of whichever call failed.
C5_CancelBeforeTerminate ==
    last.op = "DeleteSpot" =>
        /\ \A j \in CallsOf(last.calls, "TerminateInstances") :
              \E i \in CallsOf(last.calls, "CancelSpotInstanceRequests") :
                  i < j /\ last.calls[i].ok
        /\ \A i \in CallsOf(last.calls, "CancelSpotInstanceRequests") :
              /\ \E k \in StatusPolls(last.calls) : k < i /\ last.calls[k].ok
              /\ \E q \in 1..Len(requests) :
                    /\ requests[q].SpotInstanceRequestId = last.calls[i].arg
                    /\ HasTag(requests[q], "devpod", last.val)
        /\ \A i \in FailedCalls(last.calls) :
              /\ i = Len(last.calls)
              /\ last.err # NoErr
              /\ last.err = last.calls[i].err

\* C5 happens: the request was found and cancelled, then the termination was
\* issued, failed, and its error returned
C5_Witness ==
    /\ last.op = "DeleteSpot"
    /\ Len(last.calls) = 3
    /\ last.calls[2].api = "CancelSpotInstanceRequests" /\ last.calls[2].ok
    /\ last.calls[3].api = "TerminateInstances" /\ ~last.calls[3].ok
    /\ last.err = last.calls[3].err
    /\ \E q \in 1..Len(requests) :
          requests[q].SpotInstanceRequestId = last.calls[2].arg
              /\ requests[q].State = "cancelled"

\* the instances and the open spot requests that carry a machine identifier
InstancesOf(machine) ==
    {i \in 1..Len(instances) :
        HasTag(instances[i], "devpod", machine) /\ instances[i].State # "terminated"}
OpenRequestsOf(machine) ==
    {i \in 1..Len(requests) :
        HasTag(requests[i], "devpod", machine) /\ requests[i].State = "open"}

\* C9: when no invocation is under way (the create and delete invocations of one
\* machine identifier ran one after the other), the store holds at most one
\* instance and at most one open spot request tagged with that identifier.
C9_AtMostOnePerMachine ==
    (provider # Nil /\ proc.pc = "idle") =>
        /\ Cardinality(InstancesOf(provider.MachineID)) <= 1
        /\ Cardinality(OpenRequestsOf(provider.MachineID)) <= 1

\* the subnets of the configured VPC with public-IP auto-assignment enabled
PublicInVpc(cfg) ==
    {i \in 1..Len(subnets) :
        subnets[i].VpcId = cfg.VpcID /\ subnets[i].MapPublicIpOnLaunch}

\* the subnets the launches of last put in their requests
SubnetsUsed ==
    {requests[q].LaunchSpecification.SubnetId :
        q \in {k \in 1..Len(requests) :
                 \E r \in CallsOf(last.calls, "RequestSpotInstances") :
                     last.calls[r].ok /\ requests[k].SpotInstanceRequestId = last.calls[r].arg}}

\* a launch with a VPC configured and no subnet
LaunchInVpc ==
    /\ provider # Nil
    /\ last.op = "CreateSpotInstance"
    /\ provider.VpcID # "" /\ provider.SubnetID = ""

\* C10 as stated: the subnet of the launch lies in the configured VPC, has
\* auto-assignment enabled and the largest available-address count among such
\* subnets; without such a subnet the launch (its calls and the reading of its
\* key not failing) fails with "could not find a matching SubnetID" and submits
\* no request.
C10_LargestInVpc ==
    LaunchInVpc =>
        /\ \A used \in SubnetsUsed :
              \E i \in PublicInVpc(provider) :
                  /\ subnets[i].SubnetId = used
                  /\ \A j \in PublicInVpc(provider) :
                        subnets[j].AvailableIpAddressCount <= subnets[i].AvailableIpAddressCount
        /\ (/\ PublicInVpc(provider) = {}
            /\ InjectedFailures(last.calls) = {}
            /\ last.err # ErrKeypair) =>
              /\ last.err = ErrNoMatchingSubnet(provider.VpcID)
              /\ CallsOf(last.calls, "RequestSpotInstances") = {}

\* the request a launch waits for is fulfilled and has its instance attached
RequestFulfilled ==
    \E q \in 1..Len(requests) :
        /\ requests[q].SpotInstanceRequestId = proc.result
        /\ requests[q].Status = "fulfilled"
        /\ requests[q].InstanceId # ""

\* one turn of the loop: while the launch polls, only a poll changes last
LoopTurn == proc.pc = "polling" /\ last' # last

\* What a turn of the loop does: it adds one status poll to the calls of the
\* launch, and the tagging call only after a fulfilled answer; it never submits
\* a request; it leaves the loop exactly when the poll failed or was answered
\* "fulfilled" with an instance ID; a failed poll is its last call and its
\* error the result; a turn that stays in the loop changes nothing but the log.
TurnPollsOnly ==
    LET n == Len(last.calls)
        added == (n + 1)..Len(last'.calls)
    IN  /\ Len(last'.calls) > n
        /\ SubSeq(last'.calls, 1, n) = last.calls
        /\ last'.calls[n + 1].api = "DescribeSpotInstanceRequests"
        /\ \A i \in added \ {n + 1} :
              /\ last'.calls[i].api = "CreateTags"
              /\ i = n + 2
              /\ AnsweredFulfilledAny(last'.calls[n + 1])
        /\ proc'.pc = "idle" <=>
              (~last'.calls[n + 1].ok \/ AnsweredFulfilledAny(last'.calls[n + 1]))
        /\ ~last'.calls[n + 1].ok =>
              /\ Len(last'.calls) = n + 1
              /\ last'.err = last'.calls[n + 1].err
              /\ last'.err # NoErr
              /\ UNCHANGED <<requests, instances>>
        /\ proc'.pc # "idle" =>
              /\ proc' = proc
              /\ last'.err = NoErr
              /\ UNCHANGED <<vpcs, sgs, subnets, rtbs, requests, instances>>

\* a launch submits at most one request, exactly one once it polls, and polls
\* only after the submission
SubmitsOnce ==
    last.op = "CreateSpotInstance" =>
        /\ Cardinality(CallsOf(last.calls, "RequestSpotInstances")) <= 1
        /\ proc.pc = "polling" =>
              \E r \in CallsOf(last.calls, "RequestSpotInstances") :
                  last.calls[r].ok /\ last.calls[r].arg = proc.result
        /\ \A p \in StatusPolls(last.calls) :
              \E r \in CallsOf(last.calls, "RequestSpotInstances") : r < p

\* C11: the loop of CreateSpotInstance submits the spot request exactly once
\* and retries only the status check; it leaves the loop only on a status check
\* answered "fulfilled" with an instance ID attached (an empty answer or a
\* "fulfilled" one without an instance ID is one more turn) or on a failed
\* status check, which ends the operation without a tagging call.  So once the
\* request is fulfilled with its instance attached the operation returns, with
\* its result unless a call failed, and without that it stays in the loop:
\* nothing but such an answer or an error ends it.
C11_PollsUntilFulfilled ==
    /\ []SubmitsOnce
    /\ [][LoopTurn => TurnPollsOnly]_vars
    /\ (proc.pc = "polling" /\ RequestFulfilled) ~>
           (proc.pc = "idle" /\ (LaunchReturned \/ InjectedFailures(last.calls) # {}))

\* C11 happens: the launch is in its loop after MaxPolls status checks, none
\* answered "fulfilled" with an instance, and one submission
C11_Witness ==
    /\ proc.pc = "polling"
    /\ Cardinality(StatusPolls(last.calls)) = MaxPolls
    /\ \A p \in StatusPolls(last.calls) :
          last.calls[p].ok /\ ~AnsweredFulfilledAny(last.calls[p])
    /\ Cardinality(CallsOf(last.calls, "RequestSpotInstances")) = 1
    /\ \E p \in StatusPolls(last.calls) : last.calls[p].arg = "fulfilled/"

----------------------------------------------------------------------------
(* Properties of the command executor and the options loader, checked under
   SpecCmd *)

SshAttempts(calls) == CallsOf(calls, "ssh.NewSSHClient")

\* the running instances of the machine, as the lookup of the command lists them
MachineRunning(cfg) ==
    LET Match(i) == HasTag(i, "devpod", cfg.MachineID) /\ i.State = "running"
    IN  SelectSeq(instances, Match)

\* the command found its instance: the lookup succeeded and listed one
FoundInstance ==
    /\ provider # Nil
    /\ last.op = "Command"
    /\ \E c \in CallsOf(last.calls, "DescribeInstances") : last.calls[c].ok
    /\ MachineRunning(provider) # <<>>

\* the addresses of an instance that are set, as the connection is given them
AddressesOf(instance) ==
    {ip \o ":22" : ip \in {instance.PublicIpAddress, instance.PrivateIpAddress} \ {""}}

\* C4: the command executor tries the public IP first; with both IPs set and
\* the connection to the public IP failing it tries the private IP before it
\* fails; with neither IP set it fails with "instance <machine> is not
\* reachable" without a connection attempt; no address is tried twice.
C4_AddressFallback ==
    /\ (last.op = "Command" /\ ~FoundInstance) => SshAttempts(last.calls) = {}
    /\ FoundInstance =>
         LET instance == MachineRunning(provider)[1]
             public == instance.PublicIpAddress \o ":22"
             private == instance.PrivateIpAddress \o ":22"
             tried == SshAttempts(last.calls)
         IN  /\ \A i \in tried : last.calls[i].arg \in AddressesOf(instance)
             /\ \A i, j \in tried : last.calls[i].arg = last.calls[j].arg => i = j
             /\ instance.PublicIpAddress # "" =>
                   \E i \in tried :
                       /\ last.calls[i].arg = public
                       /\ \A j \in tried : i <= j
             /\ \A i \in tried :
                   (/\ last.calls[i].arg = public
                    /\ ~last.calls[i].ok
                    /\ instance.PrivateIpAddress # "") =>
                       \E j \in tried : j > i /\ last.calls[j].arg = private
             /\ \A i \in tried : last.calls[i].ok => i = Len(last.calls)
             /\ AddressesOf(instance) = {} =>
                   tried = {} /\ last.err = ErrNotReachable(provider.MachineID)
             /\ last.err = ErrNotReachable(provider.MachineID) <=>
                   \A a \in AddressesOf(instance) :
                       \E i \in tried : last.calls[i].arg = a /\ ~last.calls[i].ok

\* C4 happens: both IPs set, the public one refused, the command ran on the
\* private one
C4_Witness ==
    /\ FoundInstance
    /\ Cardinality(SshAttempts(last.calls)) = 2
    /\ ~last.calls[Len(last.calls) - 1].ok
    /\ last.calls[Len(last.calls)].ok
    /\ last.val = MachineRunning(provider)[1].PrivateIpAddress \o ":22"

\* the variables an operation requires, in the order it reads them
RequiredBy(op) ==
    CASE op = "NewProvider" -> <<AWS_INSTANCE_TYPE, AWS_DISK_SIZE, MACHINE_ID, MACHINE_FOLDER>>
      [] op = "Init" -> <<AWS_INSTANCE_TYPE, AWS_DISK_SIZE>>
      [] op = "Command" -> <<COMMAND>>
      [] OTHER -> <<>>

MissingFor(op) == {i \in 1..Len(RequiredBy(op)) : Getenv(env, RequiredBy(op)[i]) = ""}

\* the disk size is set and is not an integer, in an operation that parses it
BadDiskSize(op) ==
    /\ op \in {"NewProvider", "Init"}
    /\ Getenv(env, AWS_DISK_SIZE) # ""
    /\ Atoi(Getenv(env, AWS_DISK_SIZE)).err # NoErr

\* an error text names an option
Names(err, name) ==
    \/ Contains(err, name)
    \/ name = COMMAND /\ Contains(err, "command environment variable")

\* the operation fails before it calls the cloud and returns no configuration
FailsFast ==
    /\ last.err # NoErr
    /\ last.calls = <<>>
    /\ last.op \in {"NewProvider", "Init"} => provider = Nil

\* C6 as stated: with a required value absent, or a disk size that is not an
\* integer, the operation fails before any cloud API call with an error that
\* names the option at fault, and returns no configuration.
C6_NamesTheOption ==
    (MissingFor(last.op) # {} \/ BadDiskSize(last.op)) =>
        /\ FailsFast
        /\ \/ \E i \in MissingFor(last.op) : Names(last.err, RequiredBy(last.op)[i])
           \/ BadDiskSize(last.op) /\ Names(last.err, AWS_DISK_SIZE)

\* C6: with a required value absent the operation fails before any cloud API
\* call, returns no configuration, and its error names the first absent option
\* in the order the options are read; a disk size that is set and not an
\* integer, read after the instance type and before the machine identifier,
\* fails it the same way but with the error of strconv.Atoi, which quotes the
\* value and does not name the option.
C6_FailsFastNamingAbsent ==
    (MissingFor(last.op) # {} \/ BadDiskSize(last.op)) =>
        /\ FailsFast
        /\ IF BadDiskSize(last.op) /\ Getenv(env, AWS_INSTANCE_TYPE) # ""
           THEN /\ last.err = Atoi(Getenv(env, AWS_DISK_SIZE)).err
                /\ Contains(last.err, Getenv(env, AWS_DISK_SIZE))
                /\ ~Names(last.err, AWS_DISK_SIZE)
           ELSE \E i \in MissingFor(last.op) :
                   /\ \A j \in MissingFor(last.op) : i <= j
                   /\ Names(last.err, RequiredBy(last.op)[i])
                   /\ \A j \in 1..Len(RequiredBy(last.op)) :
                         Names(last.err, RequiredBy(last.op)[j]) => j = i

\* C6 happens: NewProvider failed for the machine identifier alone
C6_Witness ==
    /\ last.op = "NewProvider"
    /\ MissingFor("NewProvider") = {3}
    /\ ~BadDiskSize("NewProvider")
    /\ last.err = ErrMissingOption(MACHINE_ID)
    /\ provider = Nil

----------------------------------------------------------------------------
(* Properties of the lookups, checked under SpecLookup *)

\* the operation ended with an error value and did not crash
EndedWithError == last.err # NoErr /\ ~last.crash

\* the command found no running instance of the machine
CommandNotFound ==
    /\ last.op = "Command"
    /\ \E c \in CallsOf(last.calls, "DescribeInstances") : last.calls[c].ok
    /\ MachineRunning(provider) = <<>>

\* DeleteSpot found no spot request tagged with the identifier it was given
DeleteSpotNotFound ==
    /\ last.op = "DeleteSpot"
    /\ \E c \in StatusPolls(last.calls) : last.calls[c].ok
    /\ ~\E q \in 1..Len(requests) : HasTag(requests[q], "devpod", last.val)

\* GetSubnetID, no subnet ID configured, found no subnet: none carries the tag
\* devpod=devpod and the configured VPC has none with public-IP auto-assignment
\* and an available address
SubnetIDNotFound ==
    /\ last.op = "GetSubnetID"
    /\ provider.SubnetID = ""
    /\ Len(last.calls) = 2 /\ FailedCalls(last.calls) = {}
    /\ ~\E i \in 1..Len(subnets) : HasTag(subnets[i], "devpod", "devpod")
    /\ \A i \in PublicInVpc(provider) : subnets[i].AvailableIpAddressCount = 0

\* GetDevpodSubnet found no subnet named devpod
DevpodSubnetNotFound ==
    /\ last.op = "GetDevpodSubnet"
    /\ FailedCalls(last.calls) = {}
    /\ ~\E i \in 1..Len(subnets) : HasTag(subnets[i], "Name", "devpod")

\* C12: every "resource not found" condition ends the operation with a
\* descriptive error value, never with a crash and never with a successful
\* result that carries an empty identifier: no running instance of the machine
\* in the command, no spot request tagged with the identifier in DeleteSpot, no
\* matching subnet in GetSubnetID and GetDevpodSubnet.
C12_NotFoundIsAnError ==
    /\ CommandNotFound => EndedWithError /\ last.err = ErrNoInstance(provider.MachineID)
    /\ DeleteSpotNotFound => EndedWithError
    /\ SubnetIDNotFound => EndedWithError
    /\ DevpodSubnetNotFound => EndedWithError /\ last.err = ErrNoDevpodSubnet
    /\ last.op \in {"GetSubnetID", "GetDevpodSubnet"} =>
          (last.err = NoErr => last.val # "")

====
